---- MODULE Spec2Model ----
(***************************************************************************)
(* Function Visualizer: the heuristic multi-language function/call        *)
(* extractor (codeParser.ts, parseCode and its per-language extractors).  *)
(*                                                                         *)
(* Source text is a TLA+ string (TLC reads a string as the sequence of    *)
(* its characters).  The regular                                          *)
(* expressions of the source are written as data (Str, Set, Cat, Alt,     *)
(* Star, ...) and run by a backtracking matcher with the priorities of a  *)
(* JavaScript RegExp (leftmost match, greedy or lazy repetition, ordered  *)
(* alternatives), so that String.replace, RegExp.exec with the g flag and *)
(* RegExp.test are computed as the engine computes them.                  *)
(*                                                                         *)
(* Of the params field of an entity only the read of match[2] is           *)
(* modelled.                                                               *)
(*                                                                         *)
(* The later parts are the VS Code extension that shows the result (the   *)
(* two commands of extension.ts and the singleton panel of                 *)
(* VisualizerPanel.ts), the page of its webview (index.tsx, WebviewApp)    *)
(* and the CallGraph components that build nodes and edges.                *)
(***************************************************************************)
EXTENDS Integers, Sequences, FiniteSets, TLC

VARIABLES
    pc,                   \* "ready": parseCode not yet called; "done": it returned;
                          \* "threw": it ended with an exception
    language,             \* parseCode's language argument
    code,                 \* parseCode's code argument
    extractor,            \* the dialect extractor parseCode ran, or "none"
    codeWithoutComments,  \* the extractor's comment-stripped buffer
    functions,            \* ParsedCode.functions
    calls,                \* ParsedCode.calls
    callSites,            \* ParsedCode.callSites
    callSiteCounter,      \* the value the last extractor left in its callSiteCounter
    previous,             \* history: an earlier invocation, its arguments and result
    currentPanel,         \* VisualizerPanel.currentPanel: a panel number, 0 for undefined
    nextPanel,            \* the number of VisualizerPanel instances constructed
    panels,               \* the instances: their webview panel and their _disposables
    posted,               \* the last message posted to a webview, <<>> when none
    event,                \* the last command or event the extension handled, the
                          \* notice it showed and the panel it revealed (_panel.reveal)
    parsed,               \* what parseCode returns on each document and selection
                          \* of the editors; <<>> where there are no editors
    variant,              \* the CallGraph component that rendered, "none" before
    nodes,                \* the nodes the component handed to setNodes
    edges,                \* the edges the component handed to setEdges
    webview               \* the page of the webview panel: its script, the listener
                          \* of WebviewApp, the messages in flight and parsedData

panelVars == <<currentPanel, nextPanel, panels, posted, event, parsed>>

viewVars == <<variant, nodes, edges, webview>>

vars ==
    <<pc, language, code, extractor, codeWithoutComments, functions, calls, callSites,
      callSiteCounter, previous, panelVars, viewVars>>

----------------------------------------------------------------------------
(* Characters *)

Lower == {"a","b","c","d","e","f","g","h","i","j","k","l","m",
          "n","o","p","q","r","s","t","u","v","w","x","y","z"}
Upper == {"A","B","C","D","E","F","G","H","I","J","K","L","M",
          "N","O","P","Q","R","S","T","U","V","W","X","Y","Z"}
Digit == {"0","1","2","3","4","5","6","7","8","9"}

\* \w of a JavaScript RegExp
WordChar == Lower \cup Upper \cup Digit \cup {"_"}
\* \s of a JavaScript RegExp, and what String.trim removes
SpaceChar == {" ", "\t", "\n", "\r"}
\* what . of a JavaScript RegExp does not match
LineTerminator == {"\n", "\r"}

----------------------------------------------------------------------------
(* Regular expressions as data *)

Str(s) == [t |-> "str", s |-> s]
Set(c) == [t |-> "set", c |-> c, neg |-> FALSE]
NotSet(c) == [t |-> "set", c |-> c, neg |-> TRUE]
Cat(rs) == [t |-> "cat", rs |-> rs]
Alt(rs) == [t |-> "alt", rs |-> rs]
Star(r) == [t |-> "rep", r |-> r, min |-> 0, many |-> TRUE, lazy |-> FALSE]
Plus(r) == [t |-> "rep", r |-> r, min |-> 1, many |-> TRUE, lazy |-> FALSE]
Opt(r) == [t |-> "rep", r |-> r, min |-> 0, many |-> FALSE, lazy |-> FALSE]
LazyStar(r) == [t |-> "rep", r |-> r, min |-> 0, many |-> TRUE, lazy |-> TRUE]
Cap(r) == [t |-> "cap", r |-> r, g |-> 1]
Cap2(r) == [t |-> "cap", r |-> r, g |-> 2]
WB == [t |-> "wb"]

W == Set(WordChar)
Sp == Set(SpaceChar)
Dot == NotSet(LineTerminator)
AnyChar == NotSet({})

\* the capture groups before a match attempt: match[1] and match[2] undefined
NoCaptures == [name |-> "", params |-> "", hasParams |-> FALSE]

NoMatch ==
    [ok |-> FALSE, index |-> 0, end |-> 0, name |-> "", params |-> "", hasParams |-> FALSE]

CharAt(s, i) == SubSeq(s, i, i)

InSet(r, ch) == (ch \in r.c) # r.neg

\* the least element of a non-empty set of integers
SetMin(xs) == CHOOSE m \in xs : \A k \in xs : m <= k

\* the first position at or after i whose character is not of class r
\* (Len(s) + 1 when there is none)
RunEnd(s, r, i) ==
    CHOOSE j \in i..(Len(s) + 1) :
        /\ j = Len(s) + 1 \/ ~InSet(r, CharAt(s, j))
        /\ \A k \in i..(j - 1) : InSet(r, CharAt(s, k))

IsWordAt(s, i) == i >= 1 /\ i <= Len(s) /\ CharAt(s, i) \in WordChar

\* of the tries (records [rank, m]) the successful one of least rank
FirstOk(tries) ==
    LET good == {p \in tries : p.m.ok}
    IN IF good = {} THEN NoMatch
       ELSE (CHOOSE p \in good : \A q \in good : p.rank <= q.rank).m

\* Match the continuation k (a sequence of expressions) on s at position i;
\* caps holds the capture groups set so far.  The first alternative that
\* lets the whole continuation match wins, as in a backtracking engine:
\* an alternation ranks its branches left to right, a greedy repetition
\* ranks the longer repetition first, a lazy one the shorter.
RECURSIVE Match(_, _, _, _)
Match(s, k, i, caps) ==
    IF Len(k) = 0
    THEN [ok |-> TRUE, index |-> 0, end |-> i, name |-> caps.name,
          params |-> caps.params, hasParams |-> caps.hasParams]
    ELSE LET r == Head(k)
             rest == Tail(k)
         IN CASE r.t = "str" ->
                   IF i + Len(r.s) - 1 <= Len(s) /\ SubSeq(s, i, i + Len(r.s) - 1) = r.s
                   THEN Match(s, rest, i + Len(r.s), caps)
                   ELSE NoMatch
              [] r.t = "set" ->
                   IF i <= Len(s) /\ InSet(r, CharAt(s, i))
                   THEN Match(s, rest, i + 1, caps)
                   ELSE NoMatch
              [] r.t = "wb" ->
                   IF IsWordAt(s, i - 1) # IsWordAt(s, i)
                   THEN Match(s, rest, i, caps)
                   ELSE NoMatch
              [] r.t = "cat" -> Match(s, r.rs \o rest, i, caps)
              [] r.t = "alt" ->
                   FirstOk({[rank |-> j, m |-> Match(s, <<r.rs[j]>> \o rest, i, caps)] :
                            j \in 1..Len(r.rs)})
              [] r.t = "cap" ->
                   Match(s, <<r.r, [t |-> "capend", g |-> r.g, from |-> i]>> \o rest, i, caps)
              [] r.t = "capend" ->
                   Match(s, rest, i,
                         IF r.g = 1 THEN [caps EXCEPT !.name = SubSeq(s, r.from, i - 1)]
                         ELSE [caps EXCEPT !.params = SubSeq(s, r.from, i - 1),
                                           !.hasParams = TRUE])
              [] r.t = "rep" ->
                   IF r.r.t = "set"
                   THEN LET run == RunEnd(s, r.r, i) - i
                            hi == IF r.many THEN run ELSE IF run > 0 THEN 1 ELSE 0
                        IN FirstOk({[rank |-> IF r.lazy THEN n ELSE 0 - n,
                                     m |-> Match(s, rest, i + n, caps)] : n \in r.min..hi})
                   ELSE LET more == IF r.many THEN <<r.r, [r EXCEPT !.min = 0]>> ELSE <<r.r>>
                            take == [rank |-> IF r.lazy THEN 2 ELSE 1,
                                     m |-> Match(s, more \o rest, i, caps)]
                            skip == [rank |-> IF r.lazy THEN 1 ELSE 2,
                                     m |-> Match(s, rest, i, caps)]
                        IN IF r.min > 0 THEN take.m ELSE FirstOk({take, skip})

\* the positions of s at which re matches
MatchStarts(s, re) == {i \in 1..(Len(s) + 1) : Match(s, <<re>>, i, NoCaptures).ok}

\* RegExp.exec from lastIndex: the leftmost match starting at position >= from,
\* starts being MatchStarts(s, re)
Exec(s, re, starts, from) ==
    LET later == {i \in starts : i >= from}
    IN IF later = {} THEN NoMatch
       ELSE [Match(s, <<re>>, SetMin(later), NoCaptures) EXCEPT !.index = SetMin(later)]

\* RegExp.test of a fresh expression
Test(s, re) == \E i \in 1..(Len(s) + 1) : Match(s, <<re>>, i, NoCaptures).ok

\* the matches of `while ((match = re.exec(s)) !== null)` with the g flag
\* (no expression of the source matches the empty string, so lastIndex grows)
RECURSIVE ExecFrom(_, _, _, _)
ExecFrom(s, re, starts, from) ==
    LET a == Exec(s, re, starts, from)
    IN IF ~a.ok THEN <<>>
       ELSE <<a>> \o ExecFrom(s, re, starts, a.end)

ExecAll(s, re) == ExecFrom(s, re, MatchStarts(s, re), 1)

\* the text of s from position `from` on with the matches ms cut out
RECURSIVE CutOut(_, _, _)
CutOut(s, ms, from) ==
    IF Len(ms) = 0 THEN SubSeq(s, from, Len(s))
    ELSE SubSeq(s, from, Head(ms).index - 1) \o CutOut(s, Tail(ms), Head(ms).end)

\* s.replace(re, "") with the g flag
ReplaceAll(s, re) == CutOut(s, ExecAll(s, re), 1)

----------------------------------------------------------------------------
(* String helpers *)

\* s.startsWith(p)
StartsWith(s, p) == Len(p) <= Len(s) /\ SubSeq(s, 1, Len(p)) = p

\* the whole of s, whatever n
SubstringAll(s, n) == s

\* s.substring(0, n)
Substring0(s, n) == SubSeq(s, 1, IF n < Len(s) THEN n ELSE Len(s))

\* s.trim()
Trim(s) ==
    LET first == RunEnd(s, Sp, 1)
        last == CHOOSE j \in 0..Len(s) :
                    /\ j = 0 \/ CharAt(s, j) \notin SpaceChar
                    /\ \A k \in (j + 1)..Len(s) : CharAt(s, k) \in SpaceChar
    IN SubSeq(s, first, last)

\* the positions of the "\n" of s
Newlines(s) == {i \in 1..Len(s) : CharAt(s, i) = "\n"}

\* s.split("\n"), from position `from` on
RECURSIVE SplitLines(_, _)
SplitLines(s, from) ==
    LET later == {i \in Newlines(s) : i >= from}
    IN IF later = {} THEN <<SubSeq(s, from, Len(s))>>
       ELSE <<SubSeq(s, from, SetMin(later) - 1)>> \o SplitLines(s, SetMin(later) + 1)

\* s.substring(0, match.index).split("\n").length, match.index counted from 1
LineNumberAt(s, index) == Cardinality({i \in Newlines(s) : i < index}) + 1

----------------------------------------------------------------------------
(* The expressions of the extractors *)

\* (\w+): capture group 1, the name
Name == Cap(Plus(W))
\* \(([^)]*)\): capture group 2, the parameter list
Params == Cat(<<Str("("), Cap2(Star(NotSet({")"}))), Str(")")>>)
\* (?:<[^>]*>)?
Generics == Opt(Cat(<<Str("<"), Star(NotSet({">"})), Str(">")>>))

\* a block-comment expression that needs no closing delimiter: /\/\*[\s\S]*/g
BlockCommentToEnd == Cat(<<Str("/*"), Star(AnyChar)>>)

\* /\/\*[\s\S]*?\*\//g
BlockComment == Cat(<<Str("/*"), LazyStar(AnyChar), Str("*/")>>)
\* /\/\/.*/g
LineComment == Cat(<<Str("//"), Star(Dot)>>)
\* /#.*/g
HashComment == Cat(<<Str("#"), Star(Dot)>>)
\* /'''[\s\S]*?'''/g
TripleSingle == Cat(<<Str("'''"), LazyStar(AnyChar), Str("'''")>>)
\* /"""[\s\S]*?"""/g
TripleDouble == Cat(<<Str("\"\"\""), LazyStar(AnyChar), Str("\"\"\"")>>)

\* /class\s+(\w+)/g
classRegex == Cat(<<Str("class"), Plus(Sp), Name>>)
\* /struct\s+(\w+)/g
structRegex == Cat(<<Str("struct"), Plus(Sp), Name>>)

\* /function\s+(\w+)\s*\(([^)]*)\)/g
jsFuncRegex == Cat(<<Str("function"), Plus(Sp), Name, Star(Sp), Params>>)
\* /(?:const|let|var)\s+(\w+)\s*=\s*(?:async\s*)?\(([^)]*)\)\s*=>/g
jsArrowRegex ==
    Cat(<<Alt(<<Str("const"), Str("let"), Str("var")>>), Plus(Sp), Name, Star(Sp),
          Str("="), Star(Sp), Opt(Cat(<<Str("async"), Star(Sp)>>)), Params, Star(Sp),
          Str("=>")>>)
\* /(?:async\s+)?(\w+)\s*\(([^)]*)\)\s*{/g
jsMethodRegex ==
    Cat(<<Opt(Cat(<<Str("async"), Plus(Sp)>>)), Name, Star(Sp), Params, Star(Sp), Str("{")>>)

\* /def\s+(\w+)\s*\(([^)]*)\)/g
pyFuncRegex == Cat(<<Str("def"), Plus(Sp), Name, Star(Sp), Params>>)

\* /(?:public|private|protected|static|\s)+[\w<>[\]]+\s+(\w+)\s*\(([^)]*)\)/g
javaMethodRegex ==
    Cat(<<Plus(Alt(<<Str("public"), Str("private"), Str("protected"), Str("static"), Sp>>)),
          Plus(Set(WordChar \cup {"<", ">", "[", "]"})), Plus(Sp), Name, Star(Sp), Params>>)

\* /\b(?:void|int|char|float|double|long|short|unsigned|signed|struct\s+\w+|\w+)\s+(\w+)\s*\(([^)]*)\)\s*{/g
cFuncRegex ==
    Cat(<<WB,
          Alt(<<Str("void"), Str("int"), Str("char"), Str("float"), Str("double"),
                Str("long"), Str("short"), Str("unsigned"), Str("signed"),
                Cat(<<Str("struct"), Plus(Sp), Plus(W)>>), Plus(W)>>),
          Plus(Sp), Name, Star(Sp), Params, Star(Sp), Str("{")>>)

\* /\b(?:void|int|char|float|double|long|short|unsigned|signed|bool|auto|string|std::\w+|[\w:]+)\s+(\w+)\s*\(([^)]*)\)\s*(?:const\s*)?{/g
cppFuncRegex ==
    Cat(<<WB,
          Alt(<<Str("void"), Str("int"), Str("char"), Str("float"), Str("double"),
                Str("long"), Str("short"), Str("unsigned"), Str("signed"), Str("bool"),
                Str("auto"), Str("string"), Cat(<<Str("std::"), Plus(W)>>),
                Plus(Set(WordChar \cup {":"}))>>),
          Plus(Sp), Name, Star(Sp), Params, Star(Sp),
          Opt(Cat(<<Str("const"), Star(Sp)>>)), Str("{")>>)
\* /namespace\s+(\w+)/g
namespaceRegex == Cat(<<Str("namespace"), Plus(Sp), Name>>)

\* /(\w+)\s*(?:<-|=)\s*function\s*\(([^)]*)\)/g
rFuncRegex ==
    Cat(<<Name, Star(Sp), Alt(<<Str("<-"), Str("=")>>), Star(Sp), Str("function"),
          Star(Sp), Params>>)

\* /func\s+(\w+)\s*\(([^)]*)\)/g
goFuncRegex == Cat(<<Str("func"), Plus(Sp), Name, Star(Sp), Params>>)
\* /func\s*\([^)]+\)\s*(\w+)\s*\(([^)]*)\)/g
goMethodRegex ==
    Cat(<<Str("func"), Star(Sp), Str("("), Plus(NotSet({")"})), Str(")"), Star(Sp),
          Name, Star(Sp), Params>>)
\* /type\s+(\w+)\s+struct/g
goStructRegex == Cat(<<Str("type"), Plus(Sp), Name, Plus(Sp), Str("struct")>>)

\* /fn\s+(\w+)\s*(?:<[^>]*>)?\s*\(([^)]*)\)/g
rustFuncRegex == Cat(<<Str("fn"), Plus(Sp), Name, Star(Sp), Generics, Star(Sp), Params>>)
\* /trait\s+(\w+)/g
traitRegex == Cat(<<Str("trait"), Plus(Sp), Name>>)

\* /function\s+(\w+)\s*\(([^)]*)\)/g
phpFuncRegex == Cat(<<Str("function"), Plus(Sp), Name, Star(Sp), Params>>)
\* /(?:public|private|protected|static)\s+function\s+(\w+)\s*\(([^)]*)\)/g
phpMethodRegex ==
    Cat(<<Alt(<<Str("public"), Str("private"), Str("protected"), Str("static")>>),
          Plus(Sp), Str("function"), Plus(Sp), Name, Star(Sp), Params>>)

\* /def\s+(\w+)(?:\s*\(([^)]*)\))?/g
rubyFuncRegex == Cat(<<Str("def"), Plus(Sp), Name, Opt(Cat(<<Star(Sp), Params>>))>>)
\* /module\s+(\w+)/g
moduleRegex == Cat(<<Str("module"), Plus(Sp), Name>>)

\* /func\s+(\w+)\s*(?:<[^>]*>)?\s*\(([^)]*)\)/g
swiftFuncRegex == Cat(<<Str("func"), Plus(Sp), Name, Star(Sp), Generics, Star(Sp), Params>>)

----------------------------------------------------------------------------
(* The extractors' tables *)

\* the chain of .replace(..., "") calls that builds codeWithoutComments
StripRegexes(ext) ==
    CASE ext \in {"parseJavaScript", "parseJava", "parseC", "parseCpp", "parseGo",
                  "parseRust", "parseSwift"} -> <<BlockComment, LineComment>>
      [] ext = "parsePython" -> <<HashComment, TripleSingle, TripleDouble>>
      [] ext \in {"parseR", "parseRuby"} -> <<HashComment>>
      [] ext = "parsePhp" -> <<BlockComment, LineComment, HashComment>>

\* one definition loop: its expression, the type it pushes, the names it
\* skips (`continue`) and whether it tests alreadyAdded before pushing
Pass(re, type, skip, dedupe) == [re |-> re, type |-> type, skip |-> skip, dedupe |-> dedupe]

\* the definition loops of each extractor, in source order
DefinitionPasses(ext) ==
    CASE ext = "parseJavaScript" ->
           <<Pass(jsFuncRegex, "function", {}, FALSE),
             Pass(jsArrowRegex, "arrow", {}, FALSE),
             Pass(jsMethodRegex, "method", {"if", "while", "for", "switch", "catch"}, TRUE),
             Pass(classRegex, "class", {}, FALSE)>>
      [] ext = "parsePython" ->
           <<Pass(pyFuncRegex, "function", {}, FALSE),
             Pass(classRegex, "class", {}, FALSE)>>
      [] ext = "parseJava" ->
           <<Pass(javaMethodRegex, "method",
                  {"if", "while", "for", "switch", "catch", "return"}, FALSE),
             Pass(classRegex, "class", {}, FALSE)>>
      [] ext = "parseC" ->
           <<Pass(cFuncRegex, "function", {"if", "while", "for", "switch", "return"}, FALSE),
             Pass(structRegex, "class", {}, TRUE)>>
      [] ext = "parseCpp" ->
           <<Pass(cppFuncRegex, "function",
                  {"if", "while", "for", "switch", "return", "catch"}, FALSE),
             Pass(classRegex, "class", {}, FALSE),
             Pass(namespaceRegex, "class", {}, FALSE)>>
      [] ext = "parseR" ->
           <<Pass(rFuncRegex, "function", {}, FALSE)>>
      [] ext = "parseGo" ->
           <<Pass(goFuncRegex, "function", {}, FALSE),
             Pass(goMethodRegex, "method", {}, FALSE),
             Pass(goStructRegex, "class", {}, FALSE)>>
      [] ext = "parseRust" ->
           <<Pass(rustFuncRegex, "function", {}, FALSE),
             Pass(structRegex, "class", {}, FALSE),
             Pass(traitRegex, "class", {}, FALSE)>>
      [] ext = "parsePhp" ->
           <<Pass(phpFuncRegex, "function", {}, FALSE),
             Pass(classRegex, "class", {}, FALSE),
             Pass(phpMethodRegex, "method", {}, TRUE)>>
      [] ext = "parseRuby" ->
           <<Pass(rubyFuncRegex, "function", {}, FALSE),
             Pass(classRegex, "class", {}, FALSE),
             Pass(moduleRegex, "class", {}, FALSE)>>
      [] ext = "parseSwift" ->
           <<Pass(swiftFuncRegex, "function", {}, FALSE),
             Pass(classRegex, "class", {}, FALSE),
             Pass(structRegex, "class", {}, FALSE)>>

\* a comment-line test that forgets the block-comment opener
IsCommentLineNoBlock(ext, trimmedLine) ==
    CASE ext \in {"parseJavaScript", "parseJava", "parseC", "parseCpp"} ->
           \/ StartsWith(trimmedLine, "//")
           \/ StartsWith(trimmedLine, "*")
      [] ext = "parsePython" ->
           \/ StartsWith(trimmedLine, "#")
           \/ StartsWith(trimmedLine, "\"\"\"")
           \/ StartsWith(trimmedLine, "'''")
      [] ext \in {"parseR", "parseRuby"} -> StartsWith(trimmedLine, "#")
      [] ext \in {"parseGo", "parseRust", "parseSwift"} -> StartsWith(trimmedLine, "//")
      [] ext = "parsePhp" ->
           \/ StartsWith(trimmedLine, "//")
           \/ StartsWith(trimmedLine, "#")

\* "Skip comment-only lines": the test on trimmedLine that returns from the
\* line's callback
IsCommentLine(ext, trimmedLine) ==
    CASE ext \in {"parseJavaScript", "parseJava", "parseC", "parseCpp"} ->
           \/ StartsWith(trimmedLine, "//")
           \/ StartsWith(trimmedLine, "/*")
           \/ StartsWith(trimmedLine, "*")
      [] ext = "parsePython" ->
           \/ StartsWith(trimmedLine, "#")
           \/ StartsWith(trimmedLine, "\"\"\"")
           \/ StartsWith(trimmedLine, "'''")
      [] ext \in {"parseR", "parseRuby"} -> StartsWith(trimmedLine, "#")
      [] ext \in {"parseGo", "parseRust", "parseSwift"} ->
           \/ StartsWith(trimmedLine, "//")
           \/ StartsWith(trimmedLine, "/*")
      [] ext = "parsePhp" ->
           \/ StartsWith(trimmedLine, "//")
           \/ StartsWith(trimmedLine, "/*")
           \/ StartsWith(trimmedLine, "#")

\* /(?:function|def|class|const|let|var)\s+/
jsDefinitionKeyword ==
    Cat(<<Alt(<<Str("function"), Str("def"), Str("class"), Str("const"), Str("let"),
                Str("var")>>), Plus(Sp)>>)
\* /(?:async\s+)?\w+\s*\([^)]*\)\s*(?:=>|{)/
jsDefinitionShape ==
    Cat(<<Opt(Cat(<<Str("async"), Plus(Sp)>>)), Plus(W), Star(Sp), Params, Star(Sp),
          Alt(<<Str("=>"), Str("{")>>)>>)
\* /(?:public|private|protected|static|final|abstract|synchronized)\s/
javaModifier ==
    Cat(<<Alt(<<Str("public"), Str("private"), Str("protected"), Str("static"),
                Str("final"), Str("abstract"), Str("synchronized")>>), Sp>>)
\* /\b(?:void|int|char|float|double|long|short|unsigned|signed|struct)\s+/
cTypeKeyword ==
    Cat(<<WB, Alt(<<Str("void"), Str("int"), Str("char"), Str("float"), Str("double"),
                    Str("long"), Str("short"), Str("unsigned"), Str("signed"),
                    Str("struct")>>), Plus(Sp)>>)
\* /\b(?:void|int|char|float|double|bool|class|namespace)\s+/
cppTypeKeyword ==
    Cat(<<WB, Alt(<<Str("void"), Str("int"), Str("char"), Str("float"), Str("double"),
                    Str("bool"), Str("class"), Str("namespace")>>), Plus(Sp)>>)
\* /<-\s*function|=\s*function/
rFunctionAssign ==
    Alt(<<Cat(<<Str("<-"), Star(Sp), Str("function")>>),
          Cat(<<Str("="), Star(Sp), Str("function")>>)>>)
\* /(?:public|private|protected)\s+function/
phpVisibleFunction ==
    Cat(<<Alt(<<Str("public"), Str("private"), Str("protected")>>), Plus(Sp),
          Str("function")>>)

\* a definition test that knows the keywords only and not the shape
\* `name(...) {` or `name(...) =>`
IsDefinitionLineKeywordOnly(ext, trimmedLine) ==
    ext = "parseJavaScript" /\ Test(trimmedLine, jsDefinitionKeyword)

\* a definition test that rejects no line
IsDefinitionLineNever(ext, trimmedLine) == FALSE

\* the test that rejects a matched line as a definition, not a call
IsDefinitionLine(ext, trimmedLine) ==
    CASE ext = "parseJavaScript" ->
           \/ Test(trimmedLine, jsDefinitionKeyword)
           \/ Test(trimmedLine, jsDefinitionShape)
      [] ext = "parsePython" ->
           \/ StartsWith(trimmedLine, "def ")
           \/ StartsWith(trimmedLine, "class ")
           \/ StartsWith(trimmedLine, "@")
      [] ext = "parseJava" ->
           \/ Test(trimmedLine, javaModifier)
           \/ StartsWith(trimmedLine, "class ")
           \/ StartsWith(trimmedLine, "@")
      [] ext = "parseC" -> Test(trimmedLine, cTypeKeyword)
      [] ext = "parseCpp" ->
           \/ Test(trimmedLine, cppTypeKeyword)
           \/ StartsWith(trimmedLine, "class ")
           \/ StartsWith(trimmedLine, "namespace ")
      [] ext = "parseR" -> Test(trimmedLine, rFunctionAssign)
      [] ext = "parseGo" ->
           \/ StartsWith(trimmedLine, "func ")
           \/ StartsWith(trimmedLine, "type ")
      [] ext = "parseRust" ->
           \/ StartsWith(trimmedLine, "fn ")
           \/ StartsWith(trimmedLine, "struct ")
           \/ StartsWith(trimmedLine, "trait ")
      [] ext = "parsePhp" ->
           \/ StartsWith(trimmedLine, "function ")
           \/ StartsWith(trimmedLine, "class ")
           \/ Test(trimmedLine, phpVisibleFunction)
      [] ext = "parseRuby" ->
           \/ StartsWith(trimmedLine, "def ")
           \/ StartsWith(trimmedLine, "class ")
           \/ StartsWith(trimmedLine, "module ")
      [] ext = "parseSwift" ->
           \/ StartsWith(trimmedLine, "func ")
           \/ StartsWith(trimmedLine, "class ")
           \/ StartsWith(trimmedLine, "struct ")

\* the call expressions without their \b
CallRegexNoBoundary(ext, fnName) ==
    IF ext = "parseRuby"
    THEN Cat(<<Str(fnName), Star(Sp), Opt(Str("("))>>)
    ELSE Cat(<<Str(fnName), Star(Sp), Str("(")>>)

\* new RegExp(`\\b${fnName}\\s*\\(`, "g"); parseRuby's ends in \\(?
CallRegex(ext, fnName) ==
    IF ext = "parseRuby"
    THEN Cat(<<WB, Str(fnName), Star(Sp), Opt(Str("("))>>)
    ELSE Cat(<<WB, Str(fnName), Star(Sp), Str("(")>>)

----------------------------------------------------------------------------
(* One extractor: parseJavaScript, parsePython, ..., parseSwift.  The eleven *)
(* bodies differ only in the tables above.                                  *)

\* the length of CallData.context and of CallSiteNode.context
CallContextLength == 100
CallSiteContextLength == 50

\* code.replace(...).replace(...): the expressions res applied in turn
RECURSIVE StripComments(_, _)
StripComments(res, s) ==
    IF Len(res) = 0 THEN s
    ELSE StripComments(Tail(res), ReplaceAll(s, Head(res)))

\* functions.some((f) => f.name === name && f.lineNumber === lineNumber)
AlreadyAdded(fs, name, lineNumber) ==
    \E i \in 1..Len(fs) : fs[i].name = name /\ fs[i].lineNumber = lineNumber

\* no definition loop tests match[2] before it reads it
ParamsGuardedNever(ext) == FALSE

\* params: match[2] ? match[2].split(",")... : [] -- only parseRuby tests
\* match[2] before it reads it
ParamsGuarded(ext) == ext = "parseRuby"

\* the loop pushes params: match[2].split(",")...; the loops of the type
\* definitions push params: []
ReadsParams(pass) == pass.type # "class"

\* the body of a definition loop for one match m; acc.threw when
\* match[2].split was read with match[2] undefined (a TypeError)
PushMatch(ext, acc, pass, m, stripped) ==
    IF acc.threw \/ m.name \in pass.skip THEN acc
    ELSE LET lineNumber == LineNumberAt(stripped, m.index)
         IN IF pass.dedupe /\ AlreadyAdded(acc.functions, m.name, lineNumber) THEN acc
            ELSE IF ReadsParams(pass) /\ ~m.hasParams /\ ~ParamsGuarded(ext)
                 THEN [acc EXCEPT !.threw = TRUE]
                 ELSE [acc EXCEPT !.functions =
                          Append(@, [name |-> m.name, lineNumber |-> lineNumber,
                                     type |-> pass.type])]

\* one definition loop over its matches ms
RECURSIVE RunPass(_, _, _, _, _)
RunPass(ext, acc, pass, ms, stripped) ==
    IF Len(ms) = 0 THEN acc
    ELSE RunPass(ext, PushMatch(ext, acc, pass, Head(ms), stripped), pass, Tail(ms), stripped)

\* the definition loops in source order
RECURSIVE RunPasses(_, _, _, _)
RunPasses(ext, acc, passes, stripped) ==
    IF Len(passes) = 0 THEN acc
    ELSE RunPasses(ext,
                   RunPass(ext, acc, Head(passes), ExecAll(stripped, Head(passes).re),
                           stripped),
                   Tail(passes), stripped)

\* a scan from the front of the list: the first entity that passes the test
FindCallerFirst(fs, i, lineNumber, fnName) ==
    LET P == {j \in 1..i : fs[j].lineNumber < lineNumber /\ fs[j].name # fnName}
    IN IF P = {} THEN "global" ELSE fs[SetMin(P)].name

\* for (let i = functions.length - 1; i >= 0; i--) ... caller = func.name; break
RECURSIVE FindCaller(_, _, _, _)
FindCaller(fs, i, lineNumber, fnName) ==
    IF i = 0 THEN "global"
    ELSE IF fs[i].lineNumber < lineNumber /\ fs[i].name # fnName THEN fs[i].name
    ELSE FindCaller(fs, i - 1, lineNumber, fnName)

\* a duplicate test that forgets the callee: c.from === caller && c.lineNumber === lineNumber
ExistsIgnoringCallee(cs, caller, fnName, lineNumber) ==
    \E i \in 1..Len(cs) : cs[i].from = caller /\ cs[i].lineNumber = lineNumber

\* a duplicate test that finds no duplicate
ExistsNever(cs, caller, fnName, lineNumber) == FALSE

\* calls.some((c) => c.from === caller && c.to === fnName && c.lineNumber === lineNumber)
Exists(cs, caller, fnName, lineNumber) ==
    \E i \in 1..Len(cs) :
        cs[i].from = caller /\ cs[i].to = fnName /\ cs[i].lineNumber = lineNumber

\* `call_${n}`: the decimal numeral of n after "call_"
CallId(n) == "call_" \o ToString(n)

\* a counter that is read but not incremented: callSiteCounter
NextCounterSame(n) == n

\* the counter after a call site was pushed: callSiteCounter++
NextCounter(n) == n + 1

\* the callback of functionNames.forEach for one fnName on one line;
\* acc holds calls, callSites and callSiteCounter
TestName(ext, fs, line, trimmedLine, lineNumber, fnName, acc) ==
    IF ~Test(line, CallRegex(ext, fnName)) THEN acc
    ELSE IF IsDefinitionLine(ext, trimmedLine) THEN acc
    ELSE LET caller == FindCaller(fs, Len(fs), lineNumber, fnName)
         IN IF Exists(acc.calls, caller, fnName, lineNumber) THEN acc
            ELSE [calls |-> Append(acc.calls,
                                   [from |-> caller, to |-> fnName,
                                    lineNumber |-> lineNumber,
                                    context |-> Substring0(trimmedLine, CallContextLength)]),
                  callSites |-> Append(acc.callSites,
                                   [id |-> CallId(acc.callSiteCounter),
                                    callerName |-> caller, calleeName |-> fnName,
                                    lineNumber |-> lineNumber,
                                    context |-> Substring0(trimmedLine, CallSiteContextLength)]),
                  callSiteCounter |-> NextCounter(acc.callSiteCounter)]

\* functionNames.forEach(...) from the n-th name on
RECURSIVE ForEachName(_, _, _, _, _, _, _)
ForEachName(ext, fs, line, trimmedLine, lineNumber, n, acc) ==
    IF n > Len(fs) THEN acc
    ELSE ForEachName(ext, fs, line, trimmedLine, lineNumber, n + 1,
                     TestName(ext, fs, line, trimmedLine, lineNumber, fs[n].name, acc))

\* lines.forEach((line, index) => ...) from line number lineNumber on
RECURSIVE ForEachLine(_, _, _, _, _)
ForEachLine(ext, fs, lines, lineNumber, acc) ==
    IF lineNumber > Len(lines) THEN acc
    ELSE LET line == lines[lineNumber]
             trimmedLine == Trim(line)
         IN ForEachLine(ext, fs, lines, lineNumber + 1,
                        IF IsCommentLine(ext, trimmedLine) THEN acc
                        ELSE ForEachName(ext, fs, line, trimmedLine, lineNumber, 1, acc))

\* a counter that outlives the extractor call
InitialCounterKept(n) == n

\* let callSiteCounter = 0: each extractor call starts its own counter,
\* whatever value n an earlier call left
InitialCounter(n) == 0

\* the body of one extractor
Extract(ext, text, lines, counter) ==
    LET stripped == StripComments(StripRegexes(ext), text)
        defs == RunPasses(ext, [functions |-> <<>>, threw |-> FALSE],
                          DefinitionPasses(ext), stripped)
        fs == defs.functions
        acc == ForEachLine(ext, fs, lines, 1,
                           [calls |-> <<>>, callSites |-> <<>>,
                            callSiteCounter |-> InitialCounter(counter)])
    IN [extractor |-> ext, threw |-> defs.threw, stripped |-> stripped,
        functions |-> fs, calls |-> acc.calls, callSites |-> acc.callSites,
        callSiteCounter |-> acc.callSiteCounter]

----------------------------------------------------------------------------
(* parseCode *)

\* a switch whose default falls through to the JavaScript extractor
ExtractorDefaultJs(lang) ==
    CASE lang = "python" -> "parsePython"
      [] lang = "java" -> "parseJava"
      [] lang = "c" -> "parseC"
      [] lang = "cpp" -> "parseCpp"
      [] lang = "r" -> "parseR"
      [] lang = "go" -> "parseGo"
      [] lang = "rust" -> "parseRust"
      [] lang = "php" -> "parsePhp"
      [] lang = "ruby" -> "parseRuby"
      [] lang = "swift" -> "parseSwift"
      [] OTHER -> "parseJavaScript"

\* switch (language)
Extractor(lang) ==
    CASE lang \in {"javascript", "typescript"} -> "parseJavaScript"
      [] lang = "python" -> "parsePython"
      [] lang = "java" -> "parseJava"
      [] lang = "c" -> "parseC"
      [] lang = "cpp" -> "parseCpp"
      [] lang = "r" -> "parseR"
      [] lang = "go" -> "parseGo"
      [] lang = "rust" -> "parseRust"
      [] lang = "php" -> "parsePhp"
      [] lang = "ruby" -> "parseRuby"
      [] lang = "swift" -> "parseSwift"
      [] OTHER -> "none"

\* if (!code.trim())
IsBlank(text) == Trim(text) = ""

\* which extractor parseCode runs on (text, lang), "none" for the empty result
Route(text, lang) == IF IsBlank(text) THEN "none" ELSE Extractor(lang)

\* what one parseCode call does: the extractor it runs and what comes of it
Outcome(text, lang, counter) ==
    LET ext == Route(text, lang)
    IN IF ext = "none"
       THEN [extractor |-> ext, threw |-> FALSE, stripped |-> "", functions |-> <<>>,
             calls |-> <<>>, callSites |-> <<>>, callSiteCounter |-> counter]
       ELSE Extract(ext, text, SplitLines(text, 1), counter)

ParseCode ==
    /\ pc = "ready"
    /\ LET r == Outcome(code, language, callSiteCounter)
       IN /\ extractor' = r.extractor
          /\ IF r.threw
             THEN /\ pc' = "threw"
                  /\ UNCHANGED <<codeWithoutComments, functions, calls, callSites,
                                 callSiteCounter>>
             ELSE /\ pc' = "done"
                  /\ codeWithoutComments' = r.stripped
                  /\ functions' = r.functions
                  /\ calls' = r.calls
                  /\ callSites' = r.callSites
                  /\ callSiteCounter' = r.callSiteCounter
    /\ UNCHANGED <<language, code, previous, panelVars, viewVars>>

----------------------------------------------------------------------------
(* The extension's panel: its state before any command *)

MaxPanels == 2

\* no VisualizerPanel instance with number p was constructed
NoInstance ==
    [state |-> "none", disposables |-> 0, languageId |-> "", codeOverride |-> "",
     webview |-> "none"]

\* no command or event was handled
NoEvent ==
    [cmd |-> "none", languageId |-> "", codeOverride |-> "", notice |-> "none",
     revealed |-> 0]

\* the extension is activated and no command has run
NoPanel ==
    /\ currentPanel = 0
    /\ nextPanel = 0
    /\ panels = [p \in 1..MaxPanels |-> NoInstance]
    /\ posted = <<>>
    /\ event = NoEvent
    /\ parsed = <<>>

\* useState({functions: [], calls: [], callSites: []}) of WebviewApp
NoData == [functions |-> <<>>, calls |-> <<>>, callSites |-> <<>>]

\* no page: the script of the webview has not run, WebviewApp has no
\* listener, no message is in flight in either direction
NoWebview ==
    [script |-> "none", listening |-> FALSE, toHost |-> <<>>, toWebview |-> <<>>,
     lost |-> <<>>, fileName |-> "", parsedData |-> NoData]

\* no component has rendered and there is no page
NoView ==
    /\ variant = "none"
    /\ nodes = <<>>
    /\ edges = <<>>
    /\ webview = NoWebview

----------------------------------------------------------------------------
(* Inputs *)

MaxLines == 3

SupportedLanguages ==
    {"javascript", "typescript", "python", "java", "c", "cpp", "r", "go", "rust",
     "php", "ruby", "swift"}

Languages == SupportedLanguages \cup {"haskell"}

\* the lines the buffers are made of, per language: a definition of f in the
\* language's syntax, calls, comment lines that hold a call, the two ends of
\* a block comment, a blank line
Templates(lang) ==
    CASE lang = "javascript" ->
           {"function f() {}", "f();", "g();", "class K { g() {} }", "/* f();"}
      [] lang = "typescript" -> {"function f() {}", "f();", "// f();"}
      [] lang = "python" -> {"def f():", "def g():", "  f()", "'''", "@f()"}
      [] lang = "java" -> {"public void f() {}", "f();", "/* f();", "*/", ""}
      [] lang = "c" -> {"void f() {}", "f();", "/* f();", "// f();"}
      [] lang = "cpp" -> {"int f() {}", "f();", "/* f();"}
      [] lang = "r" -> {"f <- function() {}", "f()", "# f()"}
      [] lang = "go" -> {"func f() {}", "f()", "/* f()", ""}
      [] lang = "rust" -> {"fn f() {}", "f();", "// f();"}
      [] lang = "php" -> {"function f() {}", "f();", "/* f();", "*/", "# f();"}
      [] lang = "ruby" -> {"def f()", "def g", "f()", "# f()"}
      [] lang = "swift" -> {"func f() {}", "f()", "/* f()"}
      [] OTHER -> {"function f() {}", "f();", ""}

\* the example of README.md: greet on line 1, main on line 4, calls on lines 5 and 6
ReadmeExample ==
    "def greet(name):\n    return f\"Hello, {name}\"\n\ndef main():\n"
    \o "    greet(\"Alice\")  # Line 5\n    greet(\"Bob\")    # Line 6"

\* a function with a docstring of three lines, a call at top level, a later function
DocstringExample == "def f():\n  '''\n  doc\n  '''\nf()\ndef g():"

\* three functions and a line that calls two of them
MultiCallExample == "function f() {}\nfunction g() {}\nfunction h() {}\nf(); g();"

\* a call whose line has more than 100 characters
LongLineExample ==
    "function f() {}\n  f(1000000001, 1000000002, 1000000003, 1000000004, 1000000005, "
    \o "1000000006, 1000000007, 1000000008, 1000000009, 1000000010);"

\* a string that holds the words `function for (`
KeywordExample == "log(\"use this function for (x) only\");"

\* a call of log, whose name ends in the name of the function g
SubwordExample == "function g() {}\nlog();"

\* a decorator that calls a declared function
DecoratorExample == "function f() {}\n@f()\nclass K {}"

\* a class with a constructor of its own name on the same line
ConstructorExample == "class Foo { function Foo() {} }"

\* a method without a parameter list, called without parentheses
BareCallExample == "def g\nend\ng"

\* a function named like the sentinel caller, called at top level
GlobalExample == "function global() {}\nglobal();"

\* a function declared twice and a line that calls it twice
DoubleCallExample == "function f() {}\nfunction f() {}\nf(); f();"

\* calls on a line that starts with const and on a line that holds an if block
ConstExample == "function f() {}\nconst r = f();\nif (c) { f(); }"

\* whole buffers beside the ones made of Templates
Examples(lang) ==
    CASE lang = "python" -> {ReadmeExample, DocstringExample}
      [] lang = "javascript" ->
           {MultiCallExample, LongLineExample, KeywordExample, SubwordExample,
            GlobalExample, DoubleCallExample, ConstExample}
      [] lang = "typescript" -> {DecoratorExample}
      [] lang = "php" -> {ConstructorExample}
      [] lang = "ruby" -> {BareCallExample}
      [] OTHER -> {}

RECURSIVE Join(_)
Join(ls) == IF Len(ls) = 1 THEN ls[1] ELSE ls[1] \o "\n" \o Join(Tail(ls))

Buffers(lang) ==
    {Join(ls) : ls \in UNION {[1..n -> Templates(lang)] : n \in 1..MaxLines}}
        \cup Examples(lang)

Init ==
    /\ pc = "ready"
    /\ language \in Languages
    /\ code \in Buffers(language)
    /\ extractor = "none"
    /\ codeWithoutComments = ""
    /\ functions = <<>>
    /\ calls = <<>>
    /\ callSites = <<>>
    /\ callSiteCounter = 0
    /\ previous = <<>>
    /\ NoPanel
    /\ NoView

Next == ParseCode

Spec == Init /\ [][Next]_vars

\* a parseCode call that has begun ends: it returns or it throws
Ends == pc = "ready" /\ pc' \in {"done", "threw"}

\* the call runs to its end without being suspended: every step that ends a
\* call is a ParseCode step, which is enabled whenever a call has begun
FairSpec == Spec /\ WF_pc(Ends)

----------------------------------------------------------------------------
(* Repeated invocations: the panel calls parseCode at every update *)

\* the arguments of the repeated invocations
RepeatInputs ==
    {<<"javascript", "function f() {}\nf();">>,
     <<"javascript", MultiCallExample>>,
     <<"javascript", "f();">>,
     <<"javascript", " ">>,
     <<"python", ReadmeExample>>,
     <<"ruby", BareCallExample>>,
     <<"ruby", "def f()\nf()">>,
     <<"haskell", "function f() {}\nf();">>}

\* the invocation that has just returned, as previous remembers it
Returned ==
    [language |-> language, code |-> code, functions |-> functions, calls |-> calls,
     callSites |-> callSites]

\* parseCode is called again, after it returned; previous keeps the earlier
\* invocation it holds or takes the one that has just returned
Reinvoke ==
    /\ pc = "done"
    /\ pc' = "ready"
    /\ \E in \in RepeatInputs : language' = in[1] /\ code' = in[2]
    /\ previous' \in {previous, <<Returned>>}
    /\ UNCHANGED <<extractor, codeWithoutComments, functions, calls, callSites,
                   callSiteCounter, panelVars, viewVars>>

InitRepeat ==
    /\ pc = "ready"
    /\ \E in \in RepeatInputs : language = in[1] /\ code = in[2]
    /\ extractor = "none"
    /\ codeWithoutComments = ""
    /\ functions = <<>>
    /\ calls = <<>>
    /\ callSites = <<>>
    /\ callSiteCounter = 0
    /\ previous = <<>>
    /\ NoPanel
    /\ NoView

NextRepeat == ParseCode \/ Reinvoke

SpecRepeat == InitRepeat /\ [][NextRepeat]_vars

----------------------------------------------------------------------------
(* The VS Code extension: extension.ts and VisualizerPanel.ts.  The window, *)
(* the editors and the webview panels are VS Code's; a webview panel is     *)
(* disposed once and then fires onDidDispose.  Not modelled: the export     *)
(* message of the webview and the html of the panel.                        *)

\* const supportedLanguages = [...] of visualizeFile
supportedLanguages ==
    {"javascript", "typescript", "python", "java", "c", "cpp", "r", "go", "rust", "ruby",
     "php", "swift", "javascriptreact", "typescriptreact"}

\* the language ids of the documents that an editor can show
LanguageIds == supportedLanguages \cup {"haskell"}

\* document.getText(): a declaration of f and a call of f in the language
DocumentText(languageId) ==
    CASE languageId = "python" -> "def f():\n  pass\nf()"
      [] languageId = "java" -> "public void f() {}\nf();"
      [] languageId = "c" -> "void f() {}\nf();"
      [] languageId = "cpp" -> "int f() {}\nf();"
      [] languageId = "r" -> "f <- function() {}\nf()"
      [] languageId \in {"go", "swift"} -> "func f() {}\nf()"
      [] languageId = "rust" -> "fn f() {}\nf();"
      [] languageId = "ruby" -> "def f\nend\nf"
      [] OTHER -> "function f() {}\nf();"

\* path.basename(document.fileName)
FileName(languageId) == "main." \o languageId

\* editor.document.getText(editor.selection): "" when the selection is
\* empty; the call line is selected in the documents of three languages
Selections(languageId) ==
    IF languageId \in {"javascript", "c", "haskell"} THEN {"", "f()"} ELSE {""}

\* return mapping[languageId] || "javascript"
mapLanguageId(languageId) ==
    CASE languageId \in {"javascript", "typescript", "python", "java"} -> languageId
      [] languageId = "javascriptreact" -> "javascript"
      [] languageId = "typescriptreact" -> "typescript"
      [] OTHER -> "javascript"

\* const code = codeOverride || document.getText()
CodeOf(languageId, codeOverride) ==
    IF codeOverride # "" THEN codeOverride ELSE DocumentText(languageId)

\* parseCode(code, language) of update, for the documents of the language
\* ids and their selections.  parseCode is a function of its two arguments
\* (it keeps no state), so its results are computed once, when the
\* documents are opened.
ParseAll(ids) ==
    [in \in UNION {{<<id, sel>> : sel \in Selections(id)} : id \in ids} |->
        Outcome(CodeOf(in[1], in[2]), mapLanguageId(in[1]), 0)]

\* update(document, codeOverride) of the instance p: parse, and post the
\* result to the webview of p; a parse error is caught and shown
Update(p, languageId, codeOverride) ==
    LET r == parsed[<<languageId, codeOverride>>]
    IN /\ language' = mapLanguageId(languageId)
       /\ code' = CodeOf(languageId, codeOverride)
       /\ extractor' = r.extractor
       /\ IF r.threw
          THEN /\ pc' = "threw"
               /\ UNCHANGED <<codeWithoutComments, functions, calls, callSites,
                              callSiteCounter, posted>>
          ELSE /\ pc' = "done"
               /\ codeWithoutComments' = r.stripped
               /\ functions' = r.functions
               /\ calls' = r.calls
               /\ callSites' = r.callSites
               /\ callSiteCounter' = r.callSiteCounter
               /\ posted' = <<[type |-> "update", panel |-> p,
                               language |-> mapLanguageId(languageId),
                               fileName |-> FileName(languageId),
                               parsed |-> [functions |-> r.functions, calls |-> r.calls,
                                           callSites |-> r.callSites]]>>
       /\ UNCHANGED <<previous, parsed>>

\* the notice that update shows
UpdateNotice(languageId, codeOverride) ==
    IF parsed[<<languageId, codeOverride>>].threw THEN "error" ELSE "none"

\* a createOrShow that never finds a panel
HasPanelNever(current) == FALSE

\* if (VisualizerPanel.currentPanel)
HasPanel(current) == current # 0

\* VisualizerPanel.createOrShow(extensionUri, document, codeOverride)
createOrShow(cmd, languageId, codeOverride) ==
    /\ IF HasPanel(currentPanel)
       THEN /\ Update(currentPanel, languageId, codeOverride)
            /\ UNCHANGED <<currentPanel, nextPanel, panels>>
       ELSE /\ nextPanel < MaxPanels
            /\ nextPanel' = nextPanel + 1
            /\ currentPanel' = nextPanel + 1
            /\ panels' = [panels EXCEPT ![nextPanel + 1] =
                             [state |-> "live", disposables |-> 2,
                              languageId |-> languageId, codeOverride |-> codeOverride,
                              webview |-> "loading"]]
            /\ Update(nextPanel + 1, languageId, codeOverride)
    /\ event' = [cmd |-> cmd, languageId |-> languageId, codeOverride |-> codeOverride,
                 notice |-> UpdateNotice(languageId, codeOverride),
                 revealed |-> IF HasPanel(currentPanel) THEN currentPanel ELSE 0]

\* a command that ends with a message to the user and does nothing else
Notice(cmd, languageId, notice) ==
    /\ event' = [cmd |-> cmd, languageId |-> languageId, codeOverride |-> "",
                 notice |-> notice, revealed |-> 0]
    /\ UNCHANGED <<pc, language, code, extractor, codeWithoutComments, functions, calls,
                   callSites, callSiteCounter, previous, currentPanel, nextPanel, panels,
                   posted, parsed, viewVars>>

\* the command function-visualizer.visualizeFile; the active editor shows a
\* document of some language, or there is none ("")
VisualizeFile ==
    \E languageId \in LanguageIds \cup {""} :
       IF languageId = "" THEN Notice("visualizeFile", "", "error")
       ELSE IF languageId \notin supportedLanguages
            THEN Notice("visualizeFile", languageId, "warning")
            ELSE createOrShow("visualizeFile", languageId, "") /\ UNCHANGED viewVars

\* the command function-visualizer.visualizeSelection
VisualizeSelection ==
    \E languageId \in LanguageIds \cup {""} :
       IF languageId = "" THEN Notice("visualizeSelection", "", "error")
       ELSE \E selectedText \in Selections(languageId) :
               IF selectedText = ""
               THEN Notice("visualizeSelection", "", "information")
               ELSE /\ createOrShow("visualizeSelection", languageId, selectedText)
                    /\ UNCHANGED viewVars

\* the listener of the constructor of panel p gets { type: "ready" } and
\* updates with the constructor's arguments
HandleReady(p) ==
    /\ panels[p].state = "live"
    /\ panels[p].webview = "loading"
    /\ panels[p].disposables = 2
    /\ panels' = [panels EXCEPT ![p].webview = "ready"]
    /\ Update(p, panels[p].languageId, panels[p].codeOverride)
    /\ event' = [cmd |-> "ready", languageId |-> panels[p].languageId,
                 codeOverride |-> panels[p].codeOverride,
                 notice |-> UpdateNotice(panels[p].languageId, panels[p].codeOverride),
                 revealed |-> 0]
    /\ UNCHANGED <<currentPanel, nextPanel>>

\* the webview of panel p has loaded and posts { type: "ready" }
WebviewReady == \E p \in 1..MaxPanels : HandleReady(p) /\ UNCHANGED viewVars

\* dispose() of the instance p, and this._panel.dispose() of its webview
\* panel, which fires onDidDispose while the listener is registered; w is
\* the pair of currentPanel and panels.  With its listeners disposed the
\* instance holds no disposable and nothing reads the arguments of its
\* constructor again.
RECURSIVE dispose(_, _)
RECURSIVE PanelDispose(_, _)
dispose(w, p) ==
    LET cleared == [w EXCEPT !.currentPanel = 0]
        closed == PanelDispose(cleared, p)
    IN [closed EXCEPT !.panels[p] = [NoInstance EXCEPT !.state = "disposed"]]

PanelDispose(w, p) ==
    IF w.panels[p].state # "live" THEN w
    ELSE LET closed == [w EXCEPT !.panels[p].state = "disposed",
                                 !.panels[p].webview = "none"]
         IN IF closed.panels[p].disposables > 0 THEN dispose(closed, p) ELSE closed

\* the parser's variables and the last message stay as they are
ParserUnchanged ==
    UNCHANGED <<pc, language, code, extractor, codeWithoutComments, functions, calls,
                callSites, callSiteCounter, previous, posted, nextPanel, parsed, viewVars>>

\* the user closes the panel p: VS Code disposes the webview panel
PanelClosed ==
    \E p \in 1..MaxPanels :
       /\ panels[p].state = "live"
       /\ LET w == PanelDispose([currentPanel |-> currentPanel, panels |-> panels], p)
          IN currentPanel' = w.currentPanel /\ panels' = w.panels
       /\ event' = [cmd |-> "closed", languageId |-> "", codeOverride |-> "",
                    notice |-> "none", revealed |-> 0]
       /\ ParserUnchanged

\* VisualizerPanel.currentPanel.dispose(), the public method
Dispose ==
    /\ currentPanel # 0
    /\ LET w == dispose([currentPanel |-> currentPanel, panels |-> panels], currentPanel)
       IN currentPanel' = w.currentPanel /\ panels' = w.panels
    /\ event' = [cmd |-> "dispose", languageId |-> "", codeOverride |-> "",
                 notice |-> "none", revealed |-> 0]
    /\ ParserUnchanged

InitPanel ==
    /\ pc = "ready"
    /\ language = "javascript"
    /\ code = ""
    /\ extractor = "none"
    /\ codeWithoutComments = ""
    /\ functions = <<>>
    /\ calls = <<>>
    /\ callSites = <<>>
    /\ callSiteCounter = 0
    /\ previous = <<>>
    /\ currentPanel = 0
    /\ nextPanel = 0
    /\ panels = [p \in 1..MaxPanels |-> NoInstance]
    /\ posted = <<>>
    /\ event = NoEvent
    /\ parsed = ParseAll(LanguageIds)
    /\ NoView

NextEvent ==
    \/ VisualizeFile
    \/ VisualizeSelection
    \/ WebviewReady
    \/ PanelClosed
    \/ Dispose

SpecPanel == InitPanel /\ [][NextEvent]_vars

----------------------------------------------------------------------------
(* The page of the webview panel: index.tsx, which calls root.render and
   posts 'ready', and WebviewApp, whose effect registers the 'message'
   listener.  root.render only schedules the rendering; React mounts
   WebviewApp and runs its effect in later tasks of the page.  A message of
   the extension host is an event of the page and is dispatched when it
   arrives, to the listeners registered at that moment. *)

\* visualizeFile on a supported document creates the panel: the constructor
\* sets the html of the webview, so the page starts to load, and posts its
\* first update
OpenPanel ==
    /\ currentPanel = 0
    /\ \E languageId \in supportedLanguages : createOrShow("visualizeFile", languageId, "")
    /\ webview' = [NoWebview EXCEPT !.script = "loading",
                                    !.toWebview = [i \in 1..Len(posted') |->
                                                     [reply |-> FALSE, data |-> posted'[i]]]]
    /\ UNCHANGED <<variant, nodes, edges>>

\* the extension host and the panel stay as they are
HostUnchanged ==
    UNCHANGED <<pc, language, code, extractor, codeWithoutComments, functions, calls,
                callSites, callSiteCounter, previous, panelVars, variant, nodes, edges>>

\* the script of the page runs to its end: root.render(<WebviewApp />)
\* returns, then vscodeApi.postMessage({ type: "ready" })
RunScript ==
    /\ webview.script = "loading"
    /\ webview' = [webview EXCEPT !.script = "ran",
                                  !.toHost = Append(@, [type |-> "ready"])]
    /\ HostUnchanged

\* React mounts WebviewApp and runs its effect:
\* window.addEventListener("message", messageHandler)
Mount ==
    /\ webview.script = "ran"
    /\ ~webview.listening
    /\ webview' = [webview EXCEPT !.listening = TRUE]
    /\ HostUnchanged

\* the extension host receives the 'ready' message and posts its update
HostReady ==
    /\ webview.toHost # <<>>
    /\ HandleReady(currentPanel)
    /\ webview' = [webview EXCEPT !.toHost = Tail(@),
                                  !.toWebview = Append(@, [reply |-> TRUE,
                                                           data |-> posted'[1]])]
    /\ UNCHANGED <<variant, nodes, edges>>

\* a message of the host arrives at the page: messageHandler sets
\* parsedData and fileName; without a listener the event has no effect
Deliver ==
    /\ webview.toWebview # <<>>
    /\ LET message == Head(webview.toWebview)
       IN webview' =
            IF webview.listening
            THEN [webview EXCEPT !.toWebview = Tail(@),
                                 !.parsedData = message.data.parsed,
                                 !.fileName = message.data.fileName]
            ELSE [webview EXCEPT !.toWebview = Tail(@),
                                 !.lost = Append(@, message)]
    /\ HostUnchanged

NextWebview == OpenPanel \/ RunScript \/ Mount \/ HostReady \/ Deliver

SpecWebview == InitPanel /\ [][NextWebview]_vars

----------------------------------------------------------------------------
(* The graph components: the useEffect that builds nodes and edges from the
   functions, calls and callSites that parseCode returned.  Of a node the
   model keeps the id, the label and the border; of an edge the id, the
   source and the target.  Colors and positions are not modelled. *)

\* the elements of a sequence of sequences, in order
RECURSIVE Flatten(_)
Flatten(ss) == IF ss = <<>> THEN <<>> ELSE Head(ss) \o Flatten(Tail(ss))

\* callSitesByCallee.get(name) || []: the call sites of the callee, in order
callSitesByCallee(cs, name) == SelectSeq(cs, LAMBDA c : c.calleeName = name)

\* the keys of callsByLine in insertion order: the line numbers of the sites,
\* each at its first occurrence
RECURSIVE LineKeys(_, _)
LineKeys(sites, keys) ==
    IF sites = <<>> THEN keys
    ELSE LineKeys(Tail(sites),
                  IF \E i \in 1..Len(keys) : keys[i] = Head(sites).lineNumber
                  THEN keys
                  ELSE Append(keys, Head(sites).lineNumber))

\* callsByLine.get(lineNumber)
callsByLine(sites, lineNumber) == SelectSeq(sites, LAMBDA c : c.lineNumber = lineNumber)

\* functionNodes.push({id: func.name, ...})
FunctionNode(id) ==
    [id |-> id, kind |-> "function", label |-> "", border |-> "solid", callSites |-> <<>>]

\* callSiteNodes.push({id: callsOnLine[0].id, ..., data: {label, callSites: callsOnLine}}):
\* a solid border and the label Call for one call site, a gradient border and
\* the label `${colors.length} Calls` for more
GroupedNode(callsOnLine) ==
    [id |-> callsOnLine[1].id, kind |-> "callSite",
     label |-> IF Len(callsOnLine) > 1 THEN ToString(Len(callsOnLine)) \o " Calls"
               ELSE "Call",
     border |-> IF Len(callsOnLine) = 1 THEN "solid" ELSE "gradient",
     callSites |-> callsOnLine]

\* callsByLine.forEach(...) of one function: a node for each line on which
\* the function is the callee
GroupedNodes(cs, name) ==
    LET sites == callSitesByCallee(cs, name)
        keys == LineKeys(sites, <<>>)
    IN [k \in 1..Len(keys) |-> GroupedNode(callsByLine(sites, keys[k]))]

\* CallGraphContent, and the CallGraph without handles: the call sites are
\* grouped by callee and then by line
CallGraphContent(fs, cs) ==
    LET functionNodes == [i \in 1..Len(fs) |-> FunctionNode(fs[i].name)]
        callSiteNodes == Flatten([i \in 1..Len(fs) |-> GroupedNodes(cs, fs[i].name)])
        callEdges ==
            Flatten([n \in 1..Len(callSiteNodes) |->
                       LET node == callSiteNodes[n]
                       IN [c \in 1..Len(node.callSites) |->
                             [id |-> node.id \o "-" \o node.callSites[c].calleeName
                                             \o "-" \o node.callSites[c].id,
                              source |-> node.id,
                              target |-> node.callSites[c].calleeName]]])
    IN [nodes |-> functionNodes \o callSiteNodes, edges |-> callEdges]

\* callSiteNodes.push({id: callSite.id, ...}): the label is Call
SiteNode(id) ==
    [id |-> id, kind |-> "callSite", label |-> "Call", border |-> "solid",
     callSites |-> <<>>]

\* if (callSite.callerName !== "global") edges.push(caller -> call site);
\* edges.push(call site -> callee)
SiteEdges(c) ==
    (IF c.callerName # "global"
     THEN <<[id |-> c.callerName \o "-" \o c.id, source |-> c.callerName, target |-> c.id]>>
     ELSE <<>>)
    \o <<[id |-> c.id \o "-" \o c.calleeName, source |-> c.id, target |-> c.calleeName]>>

\* the CallGraph with one node per call site of each function and an edge
\* from the caller
CallGraphOfSites(fs, cs) ==
    LET functionNodes == [i \in 1..Len(fs) |-> FunctionNode(fs[i].name)]
        callSiteNodes ==
            Flatten([i \in 1..Len(fs) |->
                       LET sites == callSitesByCallee(cs, fs[i].name)
                       IN [k \in 1..Len(sites) |-> SiteNode(sites[k].id)]])
        callEdges == Flatten([k \in 1..Len(cs) |-> SiteEdges(cs[k])])
    IN [nodes |-> functionNodes \o callSiteNodes, edges |-> callEdges]

\* const targetExists = functions.some((f) => f.name === site.calleeName);
\* the two edges of a call site, func_caller -> call_id -> func_callee
InnerEdges(fs, c) ==
    IF \E i \in 1..Len(fs) : fs[i].name = c.calleeName
    THEN <<[id |-> "edge_" \o c.id \o "_from", source |-> "func_" \o c.callerName,
            target |-> "call_" \o c.id],
           [id |-> "edge_" \o c.id \o "_to", source |-> "call_" \o c.id,
            target |-> "func_" \o c.calleeName]>>
    ELSE <<>>

\* CallGraphInner: a node func_name for each function, a node call_id for
\* each call site
CallGraphInner(fs, cs) ==
    [nodes |-> [i \in 1..Len(fs) |-> FunctionNode("func_" \o fs[i].name)]
               \o [k \in 1..Len(cs) |-> SiteNode("call_" \o cs[k].id)],
     edges |-> Flatten([k \in 1..Len(cs) |-> InnerEdges(fs, cs[k])])]

\* the CallGraph without call sites: a node for each function, an edge
\* `${call.from}-${call.to}-${index}` for each call, index from 0
CallGraphOfCalls(fs, cl) ==
    [nodes |-> [i \in 1..Len(fs) |-> FunctionNode(fs[i].name)],
     edges |-> [k \in 1..Len(cl) |->
                  [id |-> cl[k].from \o "-" \o cl[k].to \o "-" \o ToString(k - 1),
                   source |-> cl[k].from, target |-> cl[k].to]]]

\* the components
Variants == {"CallGraphContent", "CallGraphOfSites", "CallGraphInner", "CallGraphOfCalls"}

\* what the component v builds from a result of parseCode
Graph(v, fs, cl, cs) ==
    CASE v = "CallGraphContent" -> CallGraphContent(fs, cs)
      [] v = "CallGraphOfSites" -> CallGraphOfSites(fs, cs)
      [] v = "CallGraphInner" -> CallGraphInner(fs, cs)
      [] v = "CallGraphOfCalls" -> CallGraphOfCalls(fs, cl)

\* the effect of a component runs on the result that parseCode returned:
\* setNodes(allNodes); setEdges(callEdges)
Render ==
    /\ pc = "done"
    /\ variant = "none"
    /\ \E v \in Variants :
          /\ variant' = v
          /\ nodes' = Graph(v, functions, calls, callSites).nodes
          /\ edges' = Graph(v, functions, calls, callSites).edges
    /\ UNCHANGED <<pc, language, code, extractor, codeWithoutComments, functions, calls,
                   callSites, callSiteCounter, previous, panelVars, webview>>

NextGraph == ParseCode \/ Render

SpecGraph == Init /\ [][NextGraph]_vars

----------------------------------------------------------------------------
(* Properties of one parseCode call *)

\* the call has returned
Done == pc = "done"

\* the call has returned from a dialect extractor
Ran == pc = "done" /\ extractor # "none"

\* the lines of the original buffer
Lines == SplitLines(code, 1)

\* the positions at which the text p occurs in s
Occurrences(s, p) == {i \in 1..(Len(s) - Len(p) + 1) : SubSeq(s, i, i + Len(p) - 1) = p}

\* the call sites on line k
SitesOn(k) == {i \in 1..Len(callSites) : callSites[i].lineNumber = k}

\* line k mentions a discovered entity the way a call does
MentionsEntity(k) ==
    \E i \in 1..Len(functions) : Test(Lines[k], CallRegex(extractor, functions[i].name))

\* the entities recorded before line L and not named g
Preceding(L, g) ==
    {i \in 1..Len(functions) : functions[i].lineNumber < L /\ functions[i].name # g}

\* the names of the entities of Preceding(L, g) with the greatest line,
\* "global" when there is none
NearestByLine(L, g) ==
    IF Preceding(L, g) = {} THEN {"global"}
    ELSE {functions[i].name :
            i \in {j \in Preceding(L, g) :
                     \A k \in Preceding(L, g) : functions[k].lineNumber <= functions[j].lineNumber}}

\* C1: every call site's callerName is the name of the entity with the
\* greatest declaring line among the entities declared before the call
\* site's line and not named like the callee, and "global" when there is no
\* such entity, whatever the order in which the entities were appended.
C1_NearestPrecedingByLine ==
    Done => \A i \in 1..Len(callSites) :
                callSites[i].callerName
                    \in NearestByLine(callSites[i].lineNumber, callSites[i].calleeName)

\* C2: the comment-stripped buffer has exactly as many newline characters as
\* the original buffer, in every dialect.
C2_StrippedKeepsNewlines ==
    Ran => Cardinality(Newlines(codeWithoutComments)) = Cardinality(Newlines(code))

\* line k of the original buffer declares the entity e: a definition loop of
\* e's type matches on that line and captures e's name
DeclaredOn(e, k) ==
    /\ k \in 1..Len(Lines)
    /\ \E i \in 1..Len(DefinitionPasses(extractor)) :
          LET pass == DefinitionPasses(extractor)[i]
              ms == ExecAll(Lines[k], pass.re)
          IN pass.type = e.type /\ \E j \in 1..Len(ms) : ms[j].name = e.name

\* C3: every entity's declaring line is the 1-based number of the line of the
\* original buffer on which its declaration appears, also after multi-line
\* comments and, in Java, after blank lines.
C3_DeclaringLineIsOriginalLine ==
    Ran => \A i \in 1..Len(functions) : DeclaredOn(functions[i], functions[i].lineNumber)

\* C4: no two call sites, and no two calls, of one result have the same
\* (caller, callee, line), also when several entities have the same name.
C4_NoDuplicateTriples ==
    Done =>
      /\ \A i, j \in 1..Len(callSites) :
            i # j => \/ callSites[i].callerName # callSites[j].callerName
                     \/ callSites[i].calleeName # callSites[j].calleeName
                     \/ callSites[i].lineNumber # callSites[j].lineNumber
      /\ \A i, j \in 1..Len(calls) :
            i # j => \/ calls[i].from # calls[j].from
                     \/ calls[i].to # calls[j].to
                     \/ calls[i].lineNumber # calls[j].lineNumber

\* two entities share a name and a call site names it as its callee
C4_Witness ==
    /\ Done
    /\ \E i, j \in 1..Len(functions) :
          /\ i # j
          /\ functions[i].name = functions[j].name
          /\ \E k \in 1..Len(callSites) : callSites[k].calleeName = functions[i].name

\* C5: the i-th call site (from 0) has the id "call_i": the ids are pairwise
\* distinct, start at call_0 and have no gaps, whatever was skipped.
C5_SequentialIds ==
    Done =>
      /\ \A i \in 1..Len(callSites) : callSites[i].id = "call_" \o ToString(i - 1)
      /\ \A i, j \in 1..Len(callSites) : i # j => callSites[i].id # callSites[j].id

\* two call sites or more, and a line that mentions an entity was skipped
C5_Witness ==
    /\ Ran
    /\ Len(callSites) >= 2
    /\ \E k \in 1..Len(Lines) : MentionsEntity(k) /\ SitesOn(k) = {}

\* the comment markers of a language
CommentMarkers(lang) ==
    CASE lang \in {"python", "r", "ruby"} -> {"#"}
      [] lang = "php" -> {"//", "/*", "#"}
      [] OTHER -> {"//", "/*"}

\* the trimmed text of line k starts with a comment marker of the language
CommentLine(k) == \E m \in CommentMarkers(language) : StartsWith(Trim(Lines[k]), m)

\* C6: no call site has the line number of a line whose trimmed text starts
\* with the dialect's comment marker.
C6_NoCallSiteOnCommentLine ==
    Ran => \A i \in 1..Len(callSites) : ~CommentLine(callSites[i].lineNumber)

\* a comment line mentions an entity, and another line has a call site
C6_Witness ==
    /\ Ran
    /\ \E k \in 1..Len(Lines) : CommentLine(k) /\ MentionsEntity(k)
    /\ Len(callSites) > 0

\* every character of the text is white space
WhitespaceOnly(text) == \A i \in 1..Len(text) : CharAt(text, i) \in SpaceChar

\* C7: for empty or whitespace-only code, and for a language tag that is not
\* one of the twelve supported ones, parseCode returns empty functions, calls
\* and callSites and runs no dialect extractor.
C7_EmptyResult ==
    (Done /\ (WhitespaceOnly(code) \/ language \notin SupportedLanguages)) =>
        /\ extractor = "none"
        /\ functions = <<>>
        /\ calls = <<>>
        /\ callSites = <<>>

\* an unsupported tag with code that declares and calls a function
C7_Witness ==
    /\ Done
    /\ language \notin SupportedLanguages
    /\ Occurrences(code, "function f() {}") # {}
    /\ Occurrences(code, "f();") # {}
    /\ functions = <<>>

\* the extractors that strip block comments
BlockDialects ==
    {"parseJavaScript", "parseJava", "parseC", "parseCpp", "parseGo", "parseRust",
     "parsePhp", "parseSwift"}

\* the first block-comment opener of s, which no */ follows
FirstOpener(s) == SetMin(Occurrences(s, "/*"))
Unterminated(s) ==
    /\ Occurrences(s, "/*") # {}
    /\ \A q \in Occurrences(s, "*/") : q < FirstOpener(s) + 2

\* a line without its line comment: the text before the first // (or #, PHP)
CutLineComment(ext, line) ==
    LET marks == Occurrences(line, "//")
                   \cup (IF ext = "parsePhp" THEN Occurrences(line, "#") ELSE {})
    IN IF marks = {} THEN line ELSE SubSeq(line, 1, SetMin(marks) - 1)

\* the line that declares f in a language
Declaration(lang) ==
    CASE lang \in {"javascript", "typescript", "php"} -> "function f() {}"
      [] lang = "java" -> "public void f() {}"
      [] lang = "c" -> "void f() {}"
      [] lang = "cpp" -> "int f() {}"
      [] lang \in {"go", "swift"} -> "func f() {}"
      [] lang = "rust" -> "fn f() {}"
      [] OTHER -> "def f():"

DefNamesOn(k) ==
    LET ms == ExecAll(Lines[k], pyFuncRegex) IN {ms[j].name : j \in 1..Len(ms)}

\* line k is a def line; line k is a comment, def, class or @ line
PyDefLine(k) == StartsWith(Trim(Lines[k]), "def ")
PyOtherLine(k) ==
    \E p \in {"#", "\"\"\"", "'''", "def ", "class ", "@"} : StartsWith(Trim(Lines[k]), p)

\* the lines before line k that declare a function other than g
DefsBefore(k, g) == {j \in 1..(k - 1) : DefNamesOn(j) \ {g} # {}}

\* the function other than g with the latest def line before line k,
\* "global" when there is none
LatestDefBefore(k, g) ==
    IF DefsBefore(k, g) = {} THEN {"global"}
    ELSE DefNamesOn(CHOOSE j \in DefsBefore(k, g) : \A i \in DefsBefore(k, g) : i <= j) \ {g}

\* the call sites without their context
SiteSummary ==
    [i \in 1..Len(callSites) |->
        <<callSites[i].id, callSites[i].callerName, callSites[i].calleeName,
          callSites[i].lineNumber>>]

\* C9: in a Python buffer that declares functions only with def, a def line
\* yields no call site, and every line that is not a comment, def, class or
\* @ line and calls a declared function g yields exactly one call site for g,
\* attributed to the function other than g with the latest def line before
\* it; the README example yields the entities greet@1 and main@4 and the
\* calls call_0 and call_1 from main to greet at lines 5 and 6.
C9_PythonDefOnly ==
    /\ (Ran /\ extractor = "parsePython"
            /\ \A i \in 1..Len(functions) : functions[i].type = "function") =>
          \A k \in 1..Len(Lines) :
             /\ PyDefLine(k) => SitesOn(k) = {}
             /\ ~PyOtherLine(k) =>
                  \A i \in 1..Len(functions) :
                     Test(Lines[k], CallRegex(extractor, functions[i].name)) =>
                        LET g == functions[i].name
                            sites == {c \in SitesOn(k) : callSites[c].calleeName = g}
                        IN /\ Cardinality(sites) = 1
                           /\ \A c \in sites :
                                 callSites[c].callerName \in LatestDefBefore(k, g)
    /\ (Done /\ language = "python" /\ code = ReadmeExample) =>
          /\ functions = <<[name |-> "greet", lineNumber |-> 1, type |-> "function"],
                           [name |-> "main", lineNumber |-> 4, type |-> "function"]>>
          /\ SiteSummary = <<<<"call_0", "main", "greet", 5>>,
                             <<"call_1", "main", "greet", 6>>>>
          /\ Len(calls) = 2
          /\ \A i \in 1..2 : calls[i].from = "main" /\ calls[i].to = "greet"
                                /\ calls[i].lineNumber = 4 + i

\* line k is the declaration `function f() {}`
JsDeclaration(k) == Trim(Lines[k]) = "function f() {}"

\* line k is the call `f();` of the function f that an earlier line declares
JsLaterCall(k) ==
    /\ Lines[k] = "f();"
    /\ \E j \in 1..(k - 1) : JsDeclaration(j)
    /\ \E i \in 1..Len(functions) : functions[i].name = "f" /\ functions[i].type = "function"

\* C10: in JavaScript and TypeScript a line `function f() {}` yields no call
\* site, for f or for any other entity, and a later line `f();` yields
\* exactly one call site with callee f.
C10_DeclarationIsNotACall ==
    (Ran /\ extractor = "parseJavaScript") =>
        \A k \in 1..Len(Lines) :
           /\ JsDeclaration(k) => SitesOn(k) = {}
           /\ JsLaterCall(k) =>
                Cardinality({c \in SitesOn(k) : callSites[c].calleeName = "f"}) = 1

\* a declaration line and a later call line, with the call site of the call
C10_Witness ==
    /\ Ran
    /\ extractor = "parseJavaScript"
    /\ \E k \in 1..Len(Lines) :
          JsLaterCall(k) /\ \E c \in SitesOn(k) : callSites[c].calleeName = "f"

\* the names of the entities that line k invokes
InvokedOn(k) ==
    {functions[i].name :
       i \in {j \in 1..Len(functions) :
                Test(Lines[k], CallRegex(extractor, functions[j].name))}}

\* line k is neither skipped as a comment nor rejected as a definition
CallLine(k) ==
    /\ ~IsCommentLine(extractor, Trim(Lines[k]))
    /\ ~IsDefinitionLine(extractor, Trim(Lines[k]))

\* C11: in JavaScript a line that invokes k different declared entities and
\* is not definition-shaped yields exactly k call sites on that line, with
\* pairwise different callee names and pairwise different ids.
C11_OneCallSitePerCallee ==
    (Ran /\ extractor = "parseJavaScript") =>
        \A k \in 1..Len(Lines) :
           CallLine(k) =>
              /\ Cardinality(SitesOn(k)) = Cardinality(InvokedOn(k))
              /\ \A i, j \in SitesOn(k) :
                    i # j => /\ callSites[i].calleeName # callSites[j].calleeName
                             /\ callSites[i].id # callSites[j].id

\* a line invokes two entities and has two call sites
C11_Witness ==
    /\ Ran
    /\ extractor = "parseJavaScript"
    /\ \E k \in 1..Len(Lines) :
          CallLine(k) /\ Cardinality(InvokedOn(k)) >= 2 /\ Cardinality(SitesOn(k)) >= 2

\* the invocation that has just returned has the arguments of the earlier
\* invocation that previous holds
SameAsPrevious ==
    /\ Done
    /\ previous # <<>>
    /\ previous[1].language = language
    /\ previous[1].code = code

\* C12: parseCode keeps no state between invocations: an invocation with the
\* code and language of an earlier one returns equal functions, calls and
\* callSites, and the call-site ids of every invocation start at call_0.
C12_NoStateBetweenInvocations ==
    /\ SameAsPrevious =>
          /\ functions = previous[1].functions
          /\ calls = previous[1].calls
          /\ callSites = previous[1].callSites
    /\ (Done /\ callSites # <<>>) => callSites[1].id = "call_0"

\* an input with call sites is parsed again after an invocation with other
\* arguments left a counter above 0
C12_Witness ==
    /\ SameAsPrevious
    /\ Len(callSites) >= 2
    /\ callSiteCounter = Len(callSites)
    /\ previous[1].callSites # <<>>

\* the definition line of entity i has no parameter list
NoParameterList(i) ==
    /\ functions[i].lineNumber \in 1..Len(Lines)
    /\ Occurrences(Lines[functions[i].lineNumber], "(") = {}

\* C13: every parseCode call terminates and returns, without throwing, for
\* every code and language tag, also for code that is not valid source and
\* for Ruby method definitions without a parameter list.
C13_ReturnsWithoutThrowing == <>(pc = "done")

\* a Ruby method definition without a parameter list became an entity
C13_Witness ==
    /\ Done
    /\ extractor = "parseRuby"
    /\ \E i \in 1..Len(functions) : functions[i].type = "function" /\ NoParameterList(i)

\* t is the text of line without its leading and trailing white space
IsTrimOf(t, line) ==
    /\ t = "" \/ (CharAt(t, 1) \notin SpaceChar /\ CharAt(t, Len(t)) \notin SpaceChar)
    /\ \E p \in 1..(Len(line) + 1) :
          /\ p + Len(t) - 1 <= Len(line)
          /\ SubSeq(line, p, p + Len(t) - 1) = t
          /\ \A q \in (1..(p - 1)) \cup ((p + Len(t))..Len(line)) :
                CharAt(line, q) \in SpaceChar

\* c is the first n characters of t, all of t when t is shorter
IsPrefixOfLength(c, t, n) ==
    /\ Len(c) = (IF Len(t) < n THEN Len(t) ELSE n)
    /\ c = SubSeq(t, 1, Len(c))

\* C14: calls and callSites have the same length and correspond position by
\* position (from = callerName, to = calleeName, same lineNumber);
\* calls[i].context is the first 100 characters of the trimmed line and
\* callSites[i].context is the first 50 characters of calls[i].context.
C14_CallsMirrorCallSites ==
    Done =>
      /\ Len(calls) = Len(callSites)
      /\ \A i \in 1..Len(calls) :
            /\ calls[i].from = callSites[i].callerName
            /\ calls[i].to = callSites[i].calleeName
            /\ calls[i].lineNumber = callSites[i].lineNumber
            /\ calls[i].lineNumber \in 1..Len(Lines)
            /\ \E t \in {Trim(Lines[calls[i].lineNumber])} :
                  /\ IsTrimOf(t, Lines[calls[i].lineNumber])
                  /\ IsPrefixOfLength(calls[i].context, t, 100)
            /\ IsPrefixOfLength(callSites[i].context, calls[i].context, 50)

\* a call on an indented line of more than 100 characters
C14_Witness ==
    /\ Done
    /\ \E i \in 1..Len(calls) :
          /\ Len(Trim(Lines[calls[i].lineNumber])) > 100
          /\ Trim(Lines[calls[i].lineNumber]) # Lines[calls[i].lineNumber]
          /\ Len(calls[i].context) = 100
          /\ Len(callSites[i].context) = 50

\* entity j is a type definition (class, struct, trait, module, namespace)
TypeDefinition(j) == functions[j].type = "class"

\* C15: in every dialect a type-definition match is not appended when an
\* entity added before it has the same name and the same declaring line.
C15_TypeDefinitionNotRepeated ==
    Ran => \A i, j \in 1..Len(functions) :
              (i < j /\ TypeDefinition(j)) =>
                  \/ functions[i].name # functions[j].name
                  \/ functions[i].lineNumber # functions[j].lineNumber

\* the keywords of control statements that a definition expression can take
\* for a name
ControlKeywords == {"if", "while", "for", "switch"}

\* C16: for JavaScript/TypeScript, Java, C and C++ a definition match whose
\* name is if, while, for or switch is discarded: no entity of kind
\* function, method or arrow has such a name.
C16_NoControlKeywordEntity ==
    (Ran /\ extractor \in {"parseJavaScript", "parseJava", "parseC", "parseCpp"}) =>
        \A i \in 1..Len(functions) :
            functions[i].type \in {"function", "method", "arrow"} =>
                functions[i].name \notin ControlKeywords

\* the positions of line at which the name n starts at a word boundary
AtBoundary(line, n) ==
    {p \in Occurrences(line, n) : p = 1 \/ CharAt(line, p - 1) \notin WordChar}

\* line holds n at a word boundary
NameAtBoundary(line, n) == AtBoundary(line, n) # {}

\* line holds n at a word boundary, followed by optional white space and "("
NameThenParen(line, n) ==
    \E p \in AtBoundary(line, n) :
       \E q \in (p + Len(n))..Len(line) :
          /\ CharAt(line, q) = "("
          /\ \A k \in (p + Len(n))..(q - 1) : CharAt(line, k) \in SpaceChar

\* C17 as stated: in every dialect, Ruby included, a call site with callee n
\* on line L exists only if line L holds n at a word boundary followed by
\* optional white space and "(".
C17_CallSiteNeedsParen ==
    Ran => \A i \in 1..Len(callSites) :
              NameThenParen(Lines[callSites[i].lineNumber], callSites[i].calleeName)

\* C17 amended: a call site with callee n on line L exists only if line L
\* holds n at a word boundary, followed in every dialect but Ruby by
\* optional white space and "("; in Ruby the "(" is optional.
C17_CallSiteNeedsParenButRuby ==
    Ran => \A i \in 1..Len(callSites) :
              LET line == Lines[callSites[i].lineNumber]
                  n == callSites[i].calleeName
              IN IF extractor = "parseRuby" THEN NameAtBoundary(line, n)
                 ELSE NameThenParen(line, n)

\* a Ruby call site on a line without "("
C17_Witness ==
    /\ Ran
    /\ extractor = "parseRuby"
    /\ \E i \in 1..Len(callSites) :
          Occurrences(Lines[callSites[i].lineNumber], "(") = {}

\* the trimmed text of line k starts with @ (a decorator or an annotation)
AtLine(k) == Trim(Lines[k]) # "" /\ CharAt(Trim(Lines[k]), 1) = "@"

\* C18: for JavaScript, TypeScript, Python and Java a line whose trimmed
\* text starts with @ never produces a call site.
C18_NoCallSiteOnAtLine ==
    (Ran /\ language \in {"javascript", "typescript", "python", "java"}) =>
        \A i \in 1..Len(callSites) : ~AtLine(callSites[i].lineNumber)

\* the last command was visualizeFile on a document whose language it
\* accepts, and the panel posted the update
FileVisualized ==
    /\ event.cmd = "visualizeFile"
    /\ event.languageId \in supportedLanguages
    /\ event.notice = "none"
    /\ posted # <<>>

\* the parser tag of a language id: the id itself, and javascript and
\* typescript for their react ids
ParserTag(languageId) ==
    CASE languageId = "javascriptreact" -> "javascript"
      [] languageId = "typescriptreact" -> "typescript"
      [] OTHER -> languageId

\* C19: for every language id that visualizeFile accepts, the panel parses
\* the document with the extractor of that same language (the react ids as
\* javascript and typescript) and sends that language tag to the webview.
C19_PanelParsesDocumentLanguage ==
    FileVisualized =>
        /\ language = ParserTag(event.languageId)
        /\ extractor = Extractor(ParserTag(event.languageId))
        /\ posted[1].language = ParserTag(event.languageId)

\* the webview panels that are open
Live == {p \in 1..MaxPanels : panels[p].state = "live"}

\* the step is a createOrShow: one of the two commands ran and passed its
\* tests of the editor, the language and the selection
CreateOrShowStep ==
    /\ event'.cmd \in {"visualizeFile", "visualizeSelection"}
    /\ event'.notice = "none"

\* the step is a dispose of the instance p: the user closed its panel or
\* dispose() was called
DisposeStep(p) ==
    /\ event'.cmd \in {"closed", "dispose"}
    /\ panels[p].state = "live"
    /\ panels'[p].state = "disposed"

\* the step posts an update for the document and selection of the command to
\* the webview of p
PostsUpdateTo(p) ==
    /\ posted' # <<>>
    /\ posted'[1].type = "update"
    /\ posted'[1].panel = p
    /\ posted'[1].fileName = FileName(event'.languageId)
    /\ code' = CodeOf(event'.languageId, event'.codeOverride)
    /\ posted'[1].parsed.functions = functions'

\* what C20 says of one step
SingletonStep ==
    /\ nextPanel' # nextPanel => (currentPanel = 0 /\ CreateOrShowStep)
    /\ (CreateOrShowStep /\ currentPanel # 0) =>
          /\ nextPanel' = nextPanel
          /\ currentPanel' = currentPanel
          /\ panels' = panels
          /\ event'.revealed = currentPanel
          /\ PostsUpdateTo(currentPanel)
    /\ (CreateOrShowStep /\ currentPanel = 0) =>
          /\ nextPanel' = nextPanel + 1
          /\ currentPanel' = nextPanel'
          /\ panels[currentPanel'].state = "none"
          /\ event'.revealed = 0
          /\ panels'[currentPanel'].state = "live"
    /\ \A p \in 1..MaxPanels :
          DisposeStep(p) => (currentPanel' = 0 /\ panels'[p].disposables = 0)
    /\ Live' \subseteq {currentPanel'}

\* C20: VisualizerPanel is a singleton over every sequence of createOrShow
\* and dispose events: a panel is created only when currentPanel is
\* undefined; when a panel exists, createOrShow creates nothing, reveals it
\* and posts an update to it; after dispose, also when dispose is re-entered
\* through onDidDispose, currentPanel is undefined and the disposables are
\* empty, and the next createOrShow creates a new panel.
C20_Singleton == [][SingletonStep]_vars

\* a second panel was created after the first was disposed, and a later
\* command found it and reused it
C20_Witness ==
    /\ nextPanel = 2
    /\ panels[1].state = "disposed"
    /\ panels[1].disposables = 0
    /\ currentPanel = 2
    /\ panels[2].state = "live"
    /\ event.cmd = "visualizeSelection"
    /\ event.notice = "none"
    /\ event.revealed = 2
    /\ posted # <<>>
    /\ posted[1].panel = 2
    /\ panels[2].languageId # event.languageId

\* the greatest index of a non-empty set of indices
LastOf(P) == CHOOSE m \in P : \A j \in P : j <= m

C25_CallerIsNotCallee ==
    Done => \A i \in 1..Len(callSites) :
                callSites[i].callerName # callSites[i].calleeName

\* the name occurs in calling position more than once on line k
InvokedTwiceOn(k, name) == Cardinality(MatchStarts(Lines[k], CallRegex(extractor, name))) >= 2

\* C26: a result has at most one call site for a pair (calleeName,
\* lineNumber), also when the line invokes the callee several times and when
\* the callee's name occurs several times in the entity list, and every call
\* site consumed one id of the counter.
C26_OneCallSitePerCalleeAndLine ==
    Done =>
      /\ \A i, j \in 1..Len(callSites) :
            i # j => \/ callSites[i].calleeName # callSites[j].calleeName
                     \/ callSites[i].lineNumber # callSites[j].lineNumber
      /\ callSiteCounter = Len(callSites)

\* an entity name that occurs twice in the list is invoked twice on one
\* line, which has one call site
C26_Witness ==
    /\ Ran
    /\ \E i, j \in 1..Len(functions), s \in 1..Len(callSites) :
          /\ i # j
          /\ functions[i].name = functions[j].name
          /\ callSites[s].calleeName = functions[i].name
          /\ InvokedTwiceOn(callSites[s].lineNumber, functions[i].name)
          /\ Cardinality(SitesOn(callSites[s].lineNumber)) = 1
    /\ callSiteCounter = 1

\* the words that make a JavaScript line a definition when whitespace follows
jsKeywords == {"function", "def", "class", "const", "let", "var"}

\* the text holds, at some position, one of the keywords followed by whitespace
HasKeywordSpace(t) ==
    \E kw \in jsKeywords :
       \E p \in Occurrences(t, kw) :
          p + Len(kw) <= Len(t) /\ CharAt(t, p + Len(kw)) \in SpaceChar

\* the text holds an identifier with a parenthesised argument list, followed
\* by { or by =>
HasCallShape(t) ==
    \E a, b \in 1..Len(t) :
       /\ a < b
       /\ CharAt(t, a) = "("
       /\ CharAt(t, b) = ")"
       /\ \A x \in (a + 1)..(b - 1) : CharAt(t, x) # ")"
       /\ \E w \in 1..(a - 1) :
             /\ CharAt(t, w) \in WordChar
             /\ \A x \in (w + 1)..(a - 1) : CharAt(t, x) \in SpaceChar
       /\ \E e \in (b + 1)..Len(t) :
             /\ \/ CharAt(t, e) = "{"
                \/ e < Len(t) /\ SubSeq(t, e, e + 1) = "=>"
             /\ \A x \in (b + 1)..(e - 1) : CharAt(t, x) \in SpaceChar

----------------------------------------------------------------------------
(* Properties of the graph components *)

\* a component has rendered the result of the call
Rendered == pc = "done" /\ variant # "none"

\* the names of the callees of the call sites on line k
CalleesOn(k) == {callSites[i].calleeName : i \in SitesOn(k)}

\* the call-site nodes that hold a call site of line k
NodesOfLine(k) ==
    {n \in 1..Len(nodes) :
        /\ nodes[n].kind = "callSite"
        /\ \E c \in 1..Len(nodes[n].callSites) : nodes[n].callSites[c].lineNumber = k}

\* C21: when k >= 2 different declared functions are called on one source
\* line, the component that groups call sites builds one call-site node for
\* the line; the node holds the k call sites, has the gradient border and
\* the label `k Calls`.
C21_OneNodePerLine ==
    (Rendered /\ variant = "CallGraphContent") =>
        \A k \in 1..Len(Lines) :
           Cardinality(CalleesOn(k)) >= 2 =>
              /\ Cardinality(NodesOfLine(k)) = 1
              /\ \A n \in NodesOfLine(k) :
                    /\ Len(nodes[n].callSites) = Cardinality(SitesOn(k))
                    /\ nodes[n].border = "gradient"
                    /\ nodes[n].label = ToString(Cardinality(SitesOn(k))) \o " Calls"

\* C22: whatever entity list parseCode returned, also one in which several
\* entities have the same name, the nodes a component builds, function nodes
\* and call-site nodes, have pairwise different ids.
C22_DistinctNodeIds ==
    Rendered => \A n, m \in 1..Len(nodes) : n # m => nodes[n].id # nodes[m].id

\* the ids of the nodes built
NodeIds == {nodes[n].id : n \in 1..Len(nodes)}

\* C23: in every component, for every result of parseCode, also one with a
\* call site whose callerName is "global", the source and the target of each
\* edge built are ids of nodes built in the same pass.
C23_EdgesJoinNodes ==
    Rendered => \A e \in 1..Len(edges) :
                   edges[e].source \in NodeIds /\ edges[e].target \in NodeIds

----------------------------------------------------------------------------
(* Properties of the commands, the panel and its webview *)

\* the step is the handling of a 'ready' message of the webview of panel p
ReadyStep(p) ==
    /\ event'.cmd = "ready"
    /\ panels[p].webview = "loading"
    /\ panels'[p].webview = "ready"

\* the update last posted went to panel p: it is the update of the most
\* recent createOrShow, which posts one on every call (no document of the
\* editors makes parseCode throw)
LastUpdateTo(p) == posted # <<>> /\ posted[1].panel = p

\* what C28 says of one step
ReadyResendsLatest ==
    \A p \in 1..MaxPanels :
       (ReadyStep(p) /\ LastUpdateTo(p)) =>
           /\ posted'[1].panel = p
           /\ posted'[1].fileName = posted[1].fileName
           /\ posted'[1].language = posted[1].language
           /\ posted'[1].parsed = posted[1].parsed
           /\ code' = code

\* C28: after any sequence of createOrShow calls on the live panel, the
\* update posted in response to a 'ready' message of its webview carries the
\* document and the code override of the most recent createOrShow call.
C28_ReadyResendsLatest == [][ReadyResendsLatest]_vars

\* the step is one of the two commands
CommandStep == event'.cmd \in {"visualizeFile", "visualizeSelection"}

\* the step creates no panel, updates none and posts nothing
PanelUntouched ==
    /\ currentPanel' = currentPanel
    /\ nextPanel' = nextPanel
    /\ panels' = panels
    /\ posted' = posted

\* what C30 says of one step: the command ran without an active editor or
\* with an empty selection (the event then records no language), or on a
\* document whose languageId is not in the list
RejectedCommandShowsMessageOnly ==
    (CommandStep /\ event'.languageId \notin supportedLanguages) =>
        /\ event'.notice # "none"
        /\ PanelUntouched

\* C30: neither visualizeFile nor visualizeSelection creates or updates the
\* panel when there is no active editor, when the languageId of the document
\* is outside the list of supported languages, or when the selection of
\* visualizeSelection is empty: a message is shown and the panel state is
\* as before.
C30_RejectedCommandShowsMessageOnly == [][RejectedCommandShowsMessageOnly]_vars

\* the handshake is over: the script has run, WebviewApp listens and no
\* message is in flight
Settled ==
    /\ webview.script = "ran"
    /\ webview.listening
    /\ webview.toHost = <<>>
    /\ webview.toWebview = <<>>

\* C29: 'ready' is sent only when WebviewApp is rendered and its listener is
\* registered, so in every interleaving of the script of the page, the
\* mounting of WebviewApp and the extension host the update posted in reply
\* to 'ready' reaches the listener, and the page ends holding the parsed
\* data of the document.
C29_HandshakeDeliversData ==
    /\ \A i \in 1..Len(webview.lost) : ~webview.lost[i].reply
    /\ Settled => /\ webview.fileName = posted[1].fileName
                  /\ webview.parsedData = posted[1].parsed

====
